---------------------------- MODULE Spec2Model ----------------------------
(***************************************************************************)
(* Model of src/webhook.py: the FIFO tax engine (SimpleTaxEngine) and the   *)
(* CSV normalizer (parse_binance_csv).                                      *)
(*                                                                          *)
(* Numbers.  Asset amounts are integers.  Money (price_eur, fee_eur, lot    *)
(* costs, gains, losses, staking_income) is counted in units of 1/Scale     *)
(* euro, Scale being a common multiple of every amount a Buy can carry, so  *)
(* that the division total_cost / amount of _process_buy is exact.  The     *)
(* arithmetic is that of the rationals: binary floating-point rounding of   *)
(* the Python floats is not modelled.                                       *)
(***************************************************************************)
EXTENDS Integers, Sequences, FiniteSets, TLC

\* bound: the number of add_transaction calls on one engine
MaxTx == 3

Assets == {"BTC", "ETH"}
Types == {"buy", "sell", "staking", "transfer"}
\* acquisition timestamps, as ordinals
Dates == {1, 2}
\* amounts a transaction can carry
Amounts == {1, 2}

RECURSIVE Product(_)
Product(S) == IF S = {} THEN 1
              ELSE LET x == CHOOSE y \in S : TRUE IN x * Product(S \ {x})

\* money unit: 1/Scale euro
Scale == Product(Amounts)

Prices == {1 * Scale, 2 * Scale}
Fees == {0, 1 * Scale}

VARIABLES
    transactions,    \* self.transactions
    lots,            \* self.lots: asset -> sequence of lots (keys created lazily)
    gains,           \* self.gains
    losses,          \* self.losses
    staking_income,  \* self.staking_income
    errors,          \* self.errors
    cost_basis,      \* the local cost_basis of the latest _process_sell that ran its loop
    rows,            \* parse_binance_csv: the rows the reader has yielded so far
    parsed,          \* parse_binance_csv: its local list transactions
    pc,              \* where the caller stands: "api", or calculate's "parse", "engine", "done"
    summary,         \* the Summary the latest get_summary call returned (NoSummary before)
    net_position,    \* _estimate_tax called alone: its argument, in 1/TaxDen euro
    estimate         \* _estimate_tax called alone: what it returned, in cents (NoEstimate before)

engine == <<transactions, lots, gains, losses, staking_income, errors, cost_basis>>

-----------------------------------------------------------------------------
(* Transaction *)

Transaction(date, asset, tx_type, amount, price_eur, fee_eur) ==
    [date |-> date, asset |-> asset, type |-> tx_type, amount |-> amount,
     price_eur |-> price_eur, fee_eur |-> fee_eur]

\* abs
Abs(x) == IF x < 0 THEN -x ELSE x

\* Transaction.total_cost
total_cost(tx) == (tx.amount * tx.price_eur) + tx.fee_eur

-----------------------------------------------------------------------------
(* SimpleTaxEngine *)

EngineInit ==
    /\ transactions = <<>>
    /\ lots = [a \in {} |-> <<>>]
    /\ gains = 0
    /\ losses = 0
    /\ staking_income = 0
    /\ errors = <<>>
    /\ cost_basis = 0

\* faulty variant: the fee is left out of the lot's cost
NewLotWithoutFee(tx) ==
    [quantity |-> tx.amount,
     cost_eur_total |-> tx.amount * tx.price_eur,
     cost_per_unit |-> IF tx.amount > 0 THEN (tx.amount * tx.price_eur) \div tx.amount ELSE 0,
     date |-> tx.date]

\* the lot a Buy appends
NewLot(tx) ==
    [quantity |-> tx.amount,
     cost_eur_total |-> total_cost(tx),
     cost_per_unit |-> IF tx.amount > 0 THEN total_cost(tx) \div tx.amount ELSE 0,
     date |-> tx.date]

\* faulty variant: the new lot goes to the head of the list
BuyLotsAtHead(ls, tx) ==
    LET present == IF tx.asset \in DOMAIN ls THEN ls
                   ELSE [a \in DOMAIN ls \cup {tx.asset} |->
                            IF a = tx.asset THEN <<>> ELSE ls[a]]
    IN [present EXCEPT ![tx.asset] = <<NewLot(tx)>> \o @]

\* self.lots after _process_buy
BuyLots(ls, tx) ==
    LET present == IF tx.asset \in DOMAIN ls THEN ls
                   ELSE [a \in DOMAIN ls \cup {tx.asset} |->
                            IF a = tx.asset THEN <<>> ELSE ls[a]]
    IN [present EXCEPT ![tx.asset] = Append(@, NewLot(tx))]

\* faulty variant: only a missing key counts, an emptied list does not
NoInventoryKeyOnly(ls, asset) == asset \notin DOMAIN ls

\* the guard of _process_sell: no inventory for the asset
NoInventory(ls, asset) == asset \notin DOMAIN ls \/ ls[asset] = <<>>

\* the error string of _process_sell
SellError(asset) == <<"Venta sin compra previa: ", asset>>

\* one lot of the while loop consumed whole?
\* faulty variant: a lot exactly as large as what remains is reduced, not removed
WholeLotStrict(lot, remaining) == lot.quantity < remaining

WholeLot(lot, remaining) == lot.quantity <= remaining

\* faulty variant: the loop takes the newest lot first (LIFO)
RECURSIVE ConsumeLotsLifo(_, _, _)
ConsumeLotsLifo(inv, remaining, cb) ==
    IF ~(remaining > 0 /\ inv # <<>>)
    THEN [inv |-> inv, remaining |-> remaining, cost_basis |-> cb]
    ELSE LET lot == inv[Len(inv)]
             front == SubSeq(inv, 1, Len(inv) - 1) IN
         IF WholeLot(lot, remaining)
         THEN ConsumeLotsLifo(front, remaining - lot.quantity, cb + lot.cost_eur_total)
         ELSE LET portion_cost == lot.cost_per_unit * remaining IN
              ConsumeLotsLifo(
                  Append(front, [lot EXCEPT !.quantity = @ - remaining,
                                            !.cost_eur_total = @ - portion_cost]),
                  0, cb + portion_cost)

\* faulty variant: a lot taken whole is not counted against remaining
RECURSIVE ConsumeLotsKeepRemaining(_, _, _)
ConsumeLotsKeepRemaining(inv, remaining, cb) ==
    IF ~(remaining > 0 /\ inv # <<>>)
    THEN [inv |-> inv, remaining |-> remaining, cost_basis |-> cb]
    ELSE LET lot == Head(inv) IN
         IF WholeLot(lot, remaining)
         THEN ConsumeLotsKeepRemaining(Tail(inv), remaining, cb + lot.cost_eur_total)
         ELSE LET portion_cost == lot.cost_per_unit * remaining IN
              ConsumeLotsKeepRemaining(
                  <<[lot EXCEPT !.quantity = @ - remaining,
                                !.cost_eur_total = @ - portion_cost]>> \o Tail(inv),
                  0, cb + portion_cost)

\* faulty variant: a partial sale leaves the lot's total cost as it was
RECURSIVE ConsumeLotsStaleCost(_, _, _)
ConsumeLotsStaleCost(inv, remaining, cb) ==
    IF ~(remaining > 0 /\ inv # <<>>)
    THEN [inv |-> inv, remaining |-> remaining, cost_basis |-> cb]
    ELSE LET lot == Head(inv) IN
         IF WholeLot(lot, remaining)
         THEN ConsumeLotsStaleCost(Tail(inv), remaining - lot.quantity,
                                   cb + lot.cost_eur_total)
         ELSE LET portion_cost == lot.cost_per_unit * remaining IN
              ConsumeLotsStaleCost(
                  <<[lot EXCEPT !.quantity = @ - remaining]>> \o Tail(inv),
                  0, cb + portion_cost)

\* the while loop of _process_sell: the inventory, remaining and cost_basis it ends with
RECURSIVE ConsumeLots(_, _, _)
ConsumeLots(inv, remaining, cb) ==
    IF ~(remaining > 0 /\ inv # <<>>)
    THEN [inv |-> inv, remaining |-> remaining, cost_basis |-> cb]
    ELSE LET lot == Head(inv) IN
         IF WholeLot(lot, remaining)
         THEN ConsumeLots(Tail(inv), remaining - lot.quantity, cb + lot.cost_eur_total)
         ELSE LET portion_cost == lot.cost_per_unit * remaining IN
              ConsumeLots(
                  <<[lot EXCEPT !.quantity = @ - remaining,
                                !.cost_eur_total = @ - portion_cost]>> \o Tail(inv),
                  0, cb + portion_cost)

\* the condition of the while loop (line 97), on its variables
LoopRuns(st) == st.remaining > 0 /\ st.inv # <<>>

\* one iteration of the while loop (lines 98-111), on its variables
LoopStep(st) ==
    LET lot == Head(st.inv) IN
    IF WholeLot(lot, st.remaining)
    THEN [inv |-> Tail(st.inv),
          remaining |-> st.remaining - lot.quantity,
          cost_basis |-> st.cost_basis + lot.cost_eur_total]
    ELSE LET portion_cost == lot.cost_per_unit * st.remaining IN
         [inv |-> <<[lot EXCEPT !.quantity = @ - st.remaining,
                                !.cost_eur_total = @ - portion_cost]>> \o Tail(st.inv),
          remaining |-> 0,
          cost_basis |-> st.cost_basis + portion_cost]

\* faulty variant: the comparison is inverted
IsGainInverted(gain) == gain < 0

\* does a realized gain count as a gain (else as a loss)?
IsGain(gain) == gain > 0

_process_buy(tx) ==
    /\ lots' = BuyLots(lots, tx)
    /\ UNCHANGED <<gains, losses, staking_income, errors, cost_basis>>

_process_sell(tx) ==
    IF NoInventory(lots, tx.asset)
    THEN /\ errors' = Append(errors, SellError(tx.asset))
         /\ UNCHANGED <<lots, gains, losses, staking_income, cost_basis>>
    ELSE LET proceeds == tx.amount * tx.price_eur
             r == ConsumeLots(lots[tx.asset], tx.amount, 0)
             gain == proceeds - r.cost_basis - tx.fee_eur
         IN /\ lots' = [lots EXCEPT ![tx.asset] = r.inv]
            /\ cost_basis' = r.cost_basis
            /\ gains' = IF IsGain(gain) THEN gains + gain ELSE gains
            /\ losses' = IF IsGain(gain) THEN losses ELSE losses + gain
            /\ UNCHANGED <<staking_income, errors>>

\* faulty variant: the reward's quantity is left out of the income
_process_staking_price_only(tx) ==
    /\ staking_income' = staking_income + tx.price_eur
    /\ UNCHANGED <<lots, gains, losses, errors, cost_basis>>

_process_staking(tx) ==
    /\ staking_income' = staking_income + tx.amount * tx.price_eur
    /\ UNCHANGED <<lots, gains, losses, errors, cost_basis>>

\* faulty variant: a Sell that finds no inventory is reported but not recorded
add_transaction_unrecorded(tx) ==
    /\ transactions' = IF tx.type = "sell" /\ NoInventory(lots, tx.asset)
                       THEN transactions ELSE Append(transactions, tx)
    /\ CASE tx.type = "buy" -> _process_buy(tx)
         [] tx.type = "sell" -> _process_sell(tx)
         [] tx.type = "staking" -> _process_staking(tx)
         [] OTHER -> UNCHANGED <<lots, gains, losses, staking_income, errors, cost_basis>>

add_transaction(tx) ==
    /\ transactions' = Append(transactions, tx)
    /\ CASE tx.type = "buy" -> _process_buy(tx)
         [] tx.type = "sell" -> _process_sell(tx)
         [] tx.type = "staking" -> _process_staking(tx)
         [] OTHER -> UNCHANGED <<lots, gains, losses, staking_income, errors, cost_basis>>

-----------------------------------------------------------------------------
(* get_summary and _estimate_tax.  round(x, 2) gives a number of cents.     *)

\* round(p / q) to the nearest integer, ties to the even one (q > 0)
RoundHalfEven(p, q) ==
    LET f == p \div q
        r == p % q
    IN IF 2 * r < q THEN f
       ELSE IF 2 * r > q THEN f + 1
       ELSE IF f % 2 = 0 THEN f ELSE f + 1

\* round(x, 2) of a money value x of the engine (1/Scale euro), in cents
Round2(x) == RoundHalfEven(x * 100, Scale)

\* the brackets of _estimate_tax, in euro, and their rates, in percent
Bracket1 == 6000
Bracket2 == 50000
Bracket3 == 200000
Rate1 == 19
Rate2 == 21
Rate3 == 23
Rate4 == 27

\* faulty variant: the brackets exclude their upper bounds
_estimate_tax_exclusive(num, den) ==
    LET rate == IF num < Bracket1 * den THEN Rate1
                ELSE IF num < Bracket2 * den THEN Rate2
                ELSE IF num < Bracket3 * den THEN Rate3
                ELSE Rate4
    IN IF num > 0 THEN RoundHalfEven(num * rate, den) ELSE 0

\* _estimate_tax(net_position) for net_position = num / den euro, in cents
_estimate_tax(num, den) ==
    LET rate == IF num <= Bracket1 * den THEN Rate1
                ELSE IF num <= Bracket2 * den THEN Rate2
                ELSE IF num <= Bracket3 * den THEN Rate3
                ELSE Rate4
    IN IF num > 0 THEN RoundHalfEven(num * rate, den) ELSE 0

\* the dict get_summary returns; 'errors' is self.errors itself, the same list object,
\* not a copy: the Summary holds a reference to it
get_summary ==
    [gains |-> Round2(gains),
     losses |-> Round2(Abs(losses)),
     net_position |-> Round2(gains + losses),
     staking_income |-> Round2(staking_income),
     total_transactions |-> Len(transactions),
     errors |-> "self.errors",
     estimated_tax_liability |-> _estimate_tax(gains + losses, Scale)]

\* no get_summary call yet
NoSummary == [total_transactions |-> -1]

\* no _estimate_tax call yet
NoEstimate == -1

-----------------------------------------------------------------------------
(* parse_binance_csv.  A row is a function from the header's column names  *)
(* to cells.  A cell is a record: k = "none" (Python None: no such column, *)
(* or a short row), "empty" (the empty string), "num" (a decimal numeral,  *)
(* v its value), "datetime" (a timestamp in the format of strptime, t its  *)
(* ordinal, frac whether a fractional-second suffix follows), "str" (any   *)
(* other text, s its characters), "name" (an asset identifier, a).          *)

None == [k |-> "none"]
Empty == [k |-> "empty"]
Num(v) == [k |-> "num", v |-> v]
DateTime(t, frac) == [k |-> "datetime", t |-> t, frac |-> frac]
Str(s) == [k |-> "str", s |-> s]
Name(a) == [k |-> "name", a |-> a]

\* Python truthiness of a cell
Truthy(c) == c.k \notin {"none", "empty"}

\* a or b
Or(a, b) == IF Truthy(a) THEN a ELSE b

\* row.get(col)
Get(row, col) == IF col \in DOMAIN row THEN row[col] ELSE None

\* float(cell): the number, or a ValueError
Float(c) == IF c.k = "num" THEN [ok |-> TRUE, v |-> c.v] ELSE [ok |-> FALSE, v |-> 0]

\* datetime.strptime(cell.split('.')[0], '%Y-%m-%d %H:%M:%S'): the fraction is cut off
Strptime(c) == IF c.k = "datetime" THEN [ok |-> TRUE, t |-> c.t] ELSE [ok |-> FALSE, t |-> 0]

\* the characters of a cell's text (the alphabet of the labels modelled)
Text(c) == IF c.k = "str" THEN c.s ELSE <<"#">>

\* the asset a coin cell names
AssetOf(c) == IF c.k = "name" THEN c.a ELSE "#"

\* str.lower, per character
LowerChar(ch) ==
    CASE ch = "B" -> "b" [] ch = "S" -> "s" [] ch = "R" -> "r" [] ch = "D" -> "d"
      [] ch = "E" -> "e" [] ch = "L" -> "l" [] ch = "U" -> "u" [] ch = "Y" -> "y"
      [] OTHER -> ch
Lower(s) == [i \in 1..Len(s) |-> LowerChar(s[i])]

\* needle in hay (substring)
Contains(hay, needle) ==
    \E i \in 0..(Len(hay) - Len(needle)) :
        \A j \in 1..Len(needle) : hay[i + j] = needle[j]

\* lines 198-206: the type of the transaction
Classify(operation, change) ==
    LET op == Lower(operation) IN
    IF Contains(op, <<"b", "u", "y">>) \/ change > 0 THEN "buy"
    ELSE IF Contains(op, <<"s", "e", "l", "l">>) \/ change < 0 THEN "sell"
    ELSE IF Contains(op, <<"s", "t", "a", "k", "e">>)
            \/ Contains(op, <<"r", "e", "w", "a", "r", "d">>) THEN "staking"
    ELSE "transfer"

\* lines 179-182 and 195: the fields of a row, each under the first of its column
\* names that holds a truthy value
DateStr(row) == Or(Or(Get(row, "Date(UTC)"), Get(row, "Date")), Get(row, "UTC_Time"))
Coin(row) == Or(Get(row, "Coin"), Get(row, "Asset"))
ChangeStr(row) == Or(Get(row, "Change"), Get(row, "Amount"))
Operation(row) == Or(Or(Get(row, "Operation"), Get(row, "Type")),
                     Str(<<"u", "n", "k", "n", "o", "w", "n">>))
PriceStr(row) == Or(Or(Get(row, "Price"), Get(row, "Value")), Num(0))

\* line 196: the price, or the exception float raises
ParsePrice(price_str) ==
    IF Truthy(price_str) THEN Float(price_str) ELSE [ok |-> TRUE, v |-> 0]

\* the body of the for loop, lines 177-221: the transactions one row adds to the list
\* (none when the row is skipped at line 185 or an exception is caught at line 219)
ParseRow(row) ==
    LET date == Strptime(DateStr(row))
        change == Float(ChangeStr(row))
        price == ParsePrice(PriceStr(row))
    IN IF ~(Truthy(DateStr(row)) /\ Truthy(Coin(row)) /\ Truthy(ChangeStr(row))) THEN <<>>
       ELSE IF ~date.ok THEN <<>>
       ELSE IF ~change.ok THEN <<>>
       ELSE IF ~price.ok THEN <<>>
       ELSE <<Transaction(date.t, AssetOf(Coin(row)),
                          Classify(Text(Operation(row)), change.v),
                          Abs(change.v), price.v, 0)>>

-----------------------------------------------------------------------------
(* The engine driven through its API by any caller *)

BuyInputs == {Transaction(d, a, "buy", q, p, f) :
                 d \in Dates, a \in Assets, q \in Amounts, p \in {1 * Scale}, f \in Fees}
SellInputs == {Transaction(1, a, "sell", q, p, f) :
                 a \in Assets, q \in Amounts, p \in Prices, f \in Fees}
StakeInputs == {Transaction(1, "BTC", "staking", q, p, 0) : q \in Amounts, p \in Prices}
TransferInputs == {Transaction(1, "BTC", "transfer", 1, 0, 0)}
TxInputs == BuyInputs \cup SellInputs \cup StakeInputs \cup TransferInputs

Init ==
    /\ EngineInit
    /\ rows = <<>>
    /\ parsed = <<>>
    /\ pc = "api"
    /\ summary = NoSummary
    /\ net_position = 0
    /\ estimate = NoEstimate

AddTransaction ==
    /\ pc = "api"
    /\ Len(transactions) < MaxTx
    /\ \E tx \in TxInputs : add_transaction(tx)
    /\ UNCHANGED <<rows, parsed, pc, summary, net_position, estimate>>

Next == AddTransaction

vars == <<transactions, lots, gains, losses, staking_income, errors, cost_basis,
          rows, parsed, pc, summary, net_position, estimate>>

Spec == Init /\ [][Next]_vars

-----------------------------------------------------------------------------
(* The engine with callers that also ask for the summary and keep what     *)
(* get_summary returned.                                                   *)

\* the transactions of one asset
SummaryInputs == {tx \in TxInputs : tx.asset = "BTC"}

AddTransactionOfAsset ==
    /\ pc = "api"
    /\ Len(transactions) < MaxTx
    /\ \E tx \in SummaryInputs : add_transaction(tx)
    /\ UNCHANGED <<rows, parsed, pc, summary, net_position, estimate>>

\* faulty variant: the losses are made positive in place before they are reported
GetSummaryInPlace ==
    /\ pc = "api"
    /\ losses' = Abs(losses)
    /\ summary' = [get_summary EXCEPT !.net_position = Round2(gains + losses)]
    /\ UNCHANGED <<transactions, lots, gains, staking_income, errors, cost_basis,
                   rows, parsed, pc, net_position, estimate>>

GetSummary ==
    /\ pc = "api"
    /\ summary' = get_summary
    /\ UNCHANGED <<engine, rows, parsed, pc, net_position, estimate>>

\* what the holder of a returned summary reads in it: the errors entry is the engine's
\* own list (line 135), so it shows that list as it is now
Deref(s) == [s EXCEPT !.errors = errors]

NextSummary == AddTransactionOfAsset \/ GetSummary

SpecSummary == Init /\ [][NextSummary]_vars

-----------------------------------------------------------------------------
(* calculate: the rows of one CSV are parsed, then the transactions are    *)
(* applied to a fresh engine in order.                                      *)

\* bound: the number of data rows of the CSV
MaxRows == 2

Buy == <<"B", "u", "y">>
SELL == <<"S", "E", "L", "L">>
Stake == <<"S", "t", "a", "k", "e">>
Reward == <<"R", "e", "w", "a", "r", "d">>
Deposit == <<"D", "e", "p", "o", "s", "i", "t">>

\* a row of an export with the columns Date(UTC), Coin, Change, Operation, Price
Row(date, coin, change, operation, price) ==
    [c \in {"Date(UTC)", "Coin", "Change", "Operation", "Price"} |->
        CASE c = "Date(UTC)" -> date [] c = "Coin" -> coin [] c = "Change" -> change
          [] c = "Operation" -> operation [] OTHER -> price]

\* a row of an export with the columns UTC_Time, Asset, Amount, Type, Value
AliasRow(date, coin, change, operation, price) ==
    [c \in {"UTC_Time", "Asset", "Amount", "Type", "Value"} |->
        CASE c = "UTC_Time" -> date [] c = "Asset" -> coin [] c = "Amount" -> change
          [] c = "Type" -> operation [] OTHER -> price]

Garbage == Str(<<"x">>)

WellFormedRows ==
    {Row(DateTime(1, FALSE), Name("BTC"), Num(ch), op, pr) :
        ch \in {-1, 0, 1},
        op \in {None, Str(Buy), Str(SELL), Str(Stake), Str(Reward), Str(Deposit)},
        pr \in {None, Num(2 * Scale)}}

OtherRows ==
    {Row(DateTime(2, TRUE), Name("BTC"), Num(2), Str(Buy), Num(1 * Scale)),
     AliasRow(DateTime(2, FALSE), Name("ETH"), Num(1), Str(Buy), Num(1 * Scale)),
     AliasRow(DateTime(2, FALSE), Name("ETH"), Num(-1), Empty, Empty)}

MalformedRows ==
    {Row(None, Name("BTC"), Num(1), Str(Buy), Num(2 * Scale)),
     Row(Garbage, Name("BTC"), Num(1), Str(Buy), Num(2 * Scale)),
     Row(DateTime(1, FALSE), Empty, Num(1), Str(Buy), Num(2 * Scale)),
     Row(DateTime(1, FALSE), Name("BTC"), Empty, Str(Buy), Num(2 * Scale)),
     Row(DateTime(1, FALSE), Name("BTC"), Garbage, Str(Buy), Num(2 * Scale)),
     Row(DateTime(1, FALSE), Name("BTC"), Num(1), Str(Buy), Garbage)}

RowInputs == WellFormedRows \cup OtherRows \cup MalformedRows

InitCalc ==
    /\ EngineInit
    /\ rows = <<>>
    /\ parsed = <<>>
    /\ pc = "parse"
    /\ summary = NoSummary
    /\ net_position = 0
    /\ estimate = NoEstimate

\* one iteration of the for loop over the reader
ReadRow ==
    /\ pc = "parse"
    /\ Len(rows) < MaxRows
    /\ \E row \in RowInputs :
          /\ rows' = Append(rows, row)
          /\ parsed' = parsed \o ParseRow(row)
    /\ UNCHANGED <<engine, pc, summary, net_position, estimate>>

\* the reader raises (csv.Error): the outer handler returns [], calculate answers 400
ReaderError ==
    /\ pc = "parse"
    /\ parsed' = <<>>
    /\ pc' = "done"
    /\ UNCHANGED <<engine, rows, summary, net_position, estimate>>

\* the reader is exhausted: the list is returned; calculate answers 400 when it is empty
EndOfInput ==
    /\ pc = "parse"
    /\ pc' = IF parsed = <<>> THEN "done" ELSE "engine"
    /\ UNCHANGED <<engine, rows, parsed, summary, net_position, estimate>>

\* one iteration of calculate's loop over the parsed transactions
ApplyNext ==
    /\ pc = "engine"
    /\ Len(transactions) < Len(parsed)
    /\ add_transaction(parsed[Len(transactions) + 1])
    /\ UNCHANGED <<rows, parsed, pc, summary, net_position, estimate>>

\* the loop is over: calculate takes the summary (line 301) and answers
Finish ==
    /\ pc = "engine"
    /\ Len(transactions) = Len(parsed)
    /\ summary' = get_summary
    /\ pc' = "done"
    /\ UNCHANGED <<engine, rows, parsed, net_position, estimate>>

NextCalc == ReadRow \/ ReaderError \/ EndOfInput \/ ApplyNext \/ Finish

SpecCalc == InitCalc /\ [][NextCalc]_vars

-----------------------------------------------------------------------------
(* _estimate_tax called alone, on net positions around its bracket bounds *)

\* the unit of net_position: 1/TaxDen euro (a cent)
TaxDen == 10 * 10

\* bound: how far around each bracket bound, in units of net_position, the inputs reach
TaxWindow == 12

TaxInputs ==
    {b * TaxDen + d : b \in {0, Bracket1, Bracket2, Bracket3}, d \in -TaxWindow..TaxWindow}
    \cup {e * TaxDen : e \in {100, 10000, 100000, 500000}}

InitTax ==
    /\ EngineInit
    /\ rows = <<>>
    /\ parsed = <<>>
    /\ pc = "tax"
    /\ summary = NoSummary
    /\ net_position \in TaxInputs
    /\ estimate = NoEstimate

EstimateTax ==
    /\ pc = "tax"
    /\ estimate' = _estimate_tax(net_position, TaxDen)
    /\ pc' = "taxed"
    /\ UNCHANGED <<engine, rows, parsed, summary, net_position>>

NextTax == EstimateTax

SpecTax == InitTax /\ [][NextTax]_vars

-----------------------------------------------------------------------------
(* Notions the properties are stated with *)

Last(s) == s[Len(s)]

Min(a, b) == IF a < b THEN a ELSE b

\* the inventory of an asset, empty when the asset has no key
Inventory(ls, a) == IF a \in DOMAIN ls THEN ls[a] ELSE <<>>

RECURSIVE SumSeq(_)
SumSeq(s) == IF s = <<>> THEN 0 ELSE Head(s) + SumSeq(Tail(s))

\* the units of an inventory in queue order, each with its cost
RECURSIVE UnitCosts(_)
UnitCosts(inv) ==
    IF inv = <<>> THEN <<>>
    ELSE [i \in 1..Head(inv).quantity |-> Head(inv).cost_eur_total \div Head(inv).quantity]
         \o UnitCosts(Tail(inv))

RECURSIVE TotalQuantity(_)
TotalQuantity(inv) == IF inv = <<>> THEN 0 ELSE Head(inv).quantity + TotalQuantity(Tail(inv))

\* this step is one add_transaction call
Applied == Len(transactions') = Len(transactions) + 1

\* this step applies a Sell
SellApplied == Applied /\ Last(transactions').type = "sell"

\* new is old with lots taken from its head only: some lots removed, the next one
\* possibly reduced, the rest as they were
TakenFromHead(old, new) ==
    \E k \in 0..Len(old) :
        /\ Len(new) = Len(old) - k
        /\ \A i \in 2..Len(new) : new[i] = old[k + i]
        /\ Len(new) > 0 =>
              /\ new[1].date = old[k + 1].date
              /\ new[1].cost_per_unit = old[k + 1].cost_per_unit
              /\ new[1].quantity <= old[k + 1].quantity

-----------------------------------------------------------------------------
(* Properties of the engine *)

\* C1: a Sell of an asset with inventory takes lots from the head of the queue only
\* (lots ahead of a touched lot are gone), and the cost basis it matches is the sum of
\* the costs of the earliest-queued units that cover the sold quantity.
C1_SellConsumesFromHead ==
    [][SellApplied /\ Inventory(lots, Last(transactions').asset) # <<>> =>
         LET tx == Last(transactions')
             old == lots[tx.asset]
             new == lots'[tx.asset]
             covered == Min(tx.amount, Len(UnitCosts(old)))
         IN /\ TakenFromHead(old, new)
            /\ UnitCosts(new) = SubSeq(UnitCosts(old), covered + 1, Len(UnitCosts(old)))
            /\ cost_basis' = SumSeq(SubSeq(UnitCosts(old), 1, covered))]_vars

\* C1 witness: two lots of different unit cost were bought, and a Sell of 2 took the
\* first lot (1 unit) whole and one unit of the second
C1_Witness ==
    /\ Len(transactions) = 3
    /\ transactions[1].type = "buy" /\ transactions[1].amount = 1
    /\ transactions[2].type = "buy" /\ transactions[2].amount = 2
    /\ transactions[3].type = "sell" /\ transactions[3].amount = 2
    /\ transactions[1].asset = transactions[3].asset
    /\ transactions[2].asset = transactions[3].asset
    /\ NewLot(transactions[1]).cost_per_unit # NewLot(transactions[2]).cost_per_unit
    /\ Len(lots[transactions[3].asset]) = 1
    /\ lots[transactions[3].asset][1].quantity = 1
    /\ cost_basis = total_cost(transactions[1]) + NewLot(transactions[2]).cost_per_unit

\* C2 (as claimed): every inventory is ordered by acquisition timestamp ascending
C2_InventorySortedByDate ==
    \A a \in DOMAIN lots :
        \A i, j \in 1..Len(lots[a]) : i < j => lots[a][i].date <= lots[a][j].date

\* C3 (as claimed): a Sell whose quantity exceeds the quantity held, also when some lots
\* exist, appends the sale-without-purchase diagnostic of its asset to errors
C3_OversellReported ==
    [][SellApplied /\ Last(transactions').amount
                        > TotalQuantity(Inventory(lots, Last(transactions').asset)) =>
         /\ Len(errors') = Len(errors) + 1
         /\ Last(errors')[2] = Last(transactions').asset]_vars

\* C4: a Sell of an asset with no inventory (no key, or an emptied list) appends exactly
\* one error naming the asset and changes neither the totals nor any inventory (no fee
\* is charged); the engine takes further transactions afterwards.
C4_SellWithoutInventory ==
    /\ [][SellApplied /\ Inventory(lots, Last(transactions').asset) = <<>> =>
            /\ Len(errors') = Len(errors) + 1
            /\ SubSeq(errors', 1, Len(errors)) = errors
            /\ Last(errors')[2] = Last(transactions').asset
            /\ UNCHANGED <<lots, gains, losses, staking_income>>]_vars
    /\ [](pc = "api" /\ errors # <<>> /\ Len(transactions) < MaxTx => ENABLED AddTransaction)

\* C4 witness: the first Sell found no inventory and was reported at no charge, and the
\* Buy after it was applied
C4_Witness ==
    /\ Len(transactions) = 2
    /\ transactions[1].type = "sell" /\ transactions[1].fee_eur > 0
    /\ transactions[2].type = "buy" /\ transactions[2].asset = transactions[1].asset
    /\ Len(errors) = 1 /\ errors[1][2] = transactions[1].asset
    /\ gains = 0 /\ losses = 0
    /\ Len(lots[transactions[1].asset]) = 1

\* the sum of the gains of the Sells of txs that found inventory, the cost basis of each
\* taken from a queue of single units (units: asset -> the costs of the units held)
RECURSIVE SellGains(_, _)
SellGains(txs, units) ==
    IF txs = <<>> THEN 0
    ELSE LET tx == Head(txs)
             held == units[tx.asset]
             n == Min(tx.amount, Len(held))
         IN CASE tx.type = "buy" ->
                   SellGains(Tail(txs),
                       [units EXCEPT ![tx.asset] =
                           @ \o [i \in 1..tx.amount |-> total_cost(tx) \div tx.amount]])
              [] tx.type = "sell" /\ held # <<>> ->
                   (tx.amount * tx.price_eur - SumSeq(SubSeq(held, 1, n)) - tx.fee_eur)
                   + SellGains(Tail(txs),
                         [units EXCEPT ![tx.asset] = SubSeq(held, n + 1, Len(held))])
              [] OTHER -> SellGains(Tail(txs), units)

\* C10: each Sell with inventory adds gain = amount * price - cost basis - fee to gains
\* when gain > 0 and to losses otherwise; so gains >= 0, losses <= 0 and gains + losses
\* is the sum of the gains of those Sells.
C10_GainsAndLosses ==
    /\ [](/\ gains >= 0
          /\ losses <= 0
          /\ gains + losses = SellGains(transactions, [a \in Assets |-> <<>>]))
    /\ [][SellApplied /\ Inventory(lots, Last(transactions').asset) # <<>> =>
            LET tx == Last(transactions')
                gain == tx.amount * tx.price_eur - cost_basis' - tx.fee_eur
            IN IF gain > 0
               THEN gains' = gains + gain /\ losses' = losses
               ELSE losses' = losses + gain /\ gains' = gains]_vars

\* C10 witness: one Sell ended in a gain and another in a loss
C10_Witness ==
    /\ gains > 0
    /\ losses < 0
    /\ Len(transactions) = 3
    /\ transactions[2].type = "sell" /\ transactions[3].type = "sell"

-----------------------------------------------------------------------------
(* Properties of the normalizer, under SpecCalc *)

\* the row has a timestamp, an asset and a signed quantity that parse
Complete(row) ==
    /\ DateStr(row).k = "datetime"
    /\ Truthy(Coin(row))
    /\ ChangeStr(row).k = "num"

\* the row's price column is absent, empty or not a number
PriceUnusable(row) == Or(Get(row, "Price"), Get(row, "Value")).k # "num"

\* the row's operation label, case-folded, contains the word
LabelHas(row, word) == Contains(Lower(Text(Operation(row))), word)
LabelBuy(row) == LabelHas(row, <<"b", "u", "y">>)
LabelSell(row) == LabelHas(row, <<"s", "e", "l", "l">>)
LabelStake(row) ==
    LabelHas(row, <<"s", "t", "a", "k", "e">>) \/ LabelHas(row, <<"r", "e", "w", "a", "r", "d">>)

\* the latest row read was emitted as a transaction (then the last of parsed)
LastRowEmitted == pc = "parse" /\ rows # <<>> /\ ParseRow(Last(rows)) # <<>>

\* this step reads one row
RowRead == Len(rows') = Len(rows) + 1

\* C5 (as claimed): the label decides first, the sign of the quantity only when the label
\* matches no rule: a sell label gives a Sell also for a positive quantity, a buy label a
\* Buy also for a negative one
C5_LabelBeforeSign ==
    LastRowEmitted =>
        LET row == Last(rows)
            tx == Last(parsed)
            change == ChangeStr(row).v
        IN /\ LabelBuy(row) => tx.type = "buy"
           /\ LabelSell(row) /\ ~LabelBuy(row) => tx.type = "sell"
           /\ ~LabelBuy(row) /\ ~LabelSell(row) /\ ~LabelStake(row) =>
                 /\ change > 0 => tx.type = "buy"
                 /\ change < 0 => tx.type = "sell"

\* the income the claim expects of the stake and reward rows: amount * price of each
RECURSIVE StakeRowsIncome(_)
StakeRowsIncome(rs) ==
    IF rs = <<>> THEN 0
    ELSE LET row == Head(rs) IN
         (IF ParseRow(row) # <<>> /\ LabelStake(row) /\ ~LabelBuy(row) /\ ~LabelSell(row)
          THEN Abs(ChangeStr(row).v) * ParseRow(row)[1].price_eur ELSE 0)
         + StakeRowsIncome(Tail(rs))

\* C6 (as claimed): a row labelled stake or reward (not buy, not sell) with a non-zero
\* quantity is emitted as a Stake, and the ledger fed with the normalized sequence holds
\* amount * price of every such row as staking income
C6_StakeRowsBecomeIncome ==
    /\ LastRowEmitted /\ LabelStake(Last(rows)) /\ ~LabelBuy(Last(rows))
          /\ ~LabelSell(Last(rows)) /\ ChangeStr(Last(rows)).v # 0
          => Last(parsed).type = "staking"
    /\ pc = "done" /\ parsed # <<>> /\ Len(transactions) = Len(parsed)
          => staking_income = StakeRowsIncome(rows)

\* C7 (as claimed): a complete row whose price is absent or not a number is emitted all
\* the same, with unit price 0
C7_BadPriceDefaultsToZero ==
    [][RowRead /\ Complete(Last(rows')) /\ PriceUnusable(Last(rows')) =>
         /\ Len(parsed') = Len(parsed) + 1
         /\ SubSeq(parsed', 1, Len(parsed)) = parsed
         /\ Last(parsed').price_eur = 0]_vars

\* C8 (as claimed): every transaction the normalizer emits has quantity > 0
C8_EmittedQuantityPositive ==
    \A i \in 1..Len(parsed) : parsed[i].amount > 0

\* C9 (as claimed): the output holds one transaction per complete row, in the order of
\* those rows; skipped rows leave the transactions of the others alone
C9_OnePerCompleteRow ==
    pc = "parse" =>
        LET good == SelectSeq(rows, Complete) IN
        /\ Len(parsed) = Len(good)
        /\ \A i \in 1..Len(good) :
              /\ parsed[i].date = DateStr(good[i]).t
              /\ parsed[i].asset = AssetOf(Coin(good[i]))
              /\ parsed[i].amount = Abs(ChangeStr(good[i]).v)

-----------------------------------------------------------------------------
(* Further properties of the engine *)

\* C11: a Sell of less than the head lot's quantity leaves that lot at the head with its
\* quantity reduced by the amount sold and its total cost by unit cost * amount, its unit
\* cost and date as they were, every later lot unchanged, and matches exactly
\* unit cost * amount as cost basis.
C11_PartialLot ==
    [][SellApplied /\ Inventory(lots, Last(transactions').asset) # <<>>
         /\ Last(transactions').amount < Head(lots[Last(transactions').asset]).quantity =>
         LET tx == Last(transactions')
             old == lots[tx.asset]
             new == lots'[tx.asset]
         IN /\ Len(new) = Len(old)
            /\ new[1].quantity = old[1].quantity - tx.amount
            /\ new[1].cost_eur_total = old[1].cost_eur_total - old[1].cost_per_unit * tx.amount
            /\ new[1].cost_per_unit = old[1].cost_per_unit
            /\ new[1].date = old[1].date
            /\ Tail(new) = Tail(old)
            /\ cost_basis' = old[1].cost_per_unit * tx.amount]_vars

\* C11 witness: of two lots, the head one (2 units, bought with a fee) lost one unit to a
\* Sell of 1 and the second is untouched
C11_Witness ==
    /\ Len(transactions) = 3
    /\ transactions[1].type = "buy" /\ transactions[1].amount = 2
    /\ transactions[1].fee_eur > 0
    /\ transactions[2].type = "buy" /\ transactions[2].asset = transactions[1].asset
    /\ transactions[3].type = "sell" /\ transactions[3].asset = transactions[1].asset
    /\ transactions[3].amount = 1
    /\ Len(lots[transactions[1].asset]) = 2
    /\ lots[transactions[1].asset][1].quantity = 1
    /\ lots[transactions[1].asset][1].cost_eur_total = NewLot(transactions[1]).cost_per_unit
    /\ lots[transactions[1].asset][2] = NewLot(transactions[2])
    /\ cost_basis = NewLot(transactions[1]).cost_per_unit

\* C12: the estimate is 0 for a net position <= 0, and otherwise the net position times
\* one flat rate, to the cent: 19% up to 6000, 21% up to 50000, 23% up to 200000, 27%
\* above, each bracket including its upper bound; 6000 gives 1140.00 and 6000.01 is
\* taxed at 21%.
C12_TaxBrackets ==
    pc = "taxed" =>
        LET n == net_position
            pct == IF n <= 6000 * TaxDen THEN 19
                   ELSE IF n <= 50000 * TaxDen THEN 21
                   ELSE IF n <= 200000 * TaxDen THEN 23
                   ELSE 27
        IN /\ n <= 0 => estimate = 0
           /\ n > 0 => 2 * Abs(estimate * TaxDen - n * pct) <= TaxDen
           /\ n = 6000 * TaxDen => estimate = 114000
           /\ n = 6000 * TaxDen + 1 => estimate = 126000

\* C12 witness: the estimate for 6000.01 has been computed, at 21%
C12_Witness ==
    /\ pc = "taxed"
    /\ net_position = 6000 * TaxDen + 1
    /\ estimate = 126000

\* C13: the summary counts the add_transaction calls: 0 on a new engine, and one more
\* after every call, whatever the kind of the transaction and whether or not it recorded
\* an error.
C13_CountsEveryCall ==
    /\ get_summary.total_transactions = 0
    /\ [][get_summary.total_transactions' = get_summary.total_transactions + 1]_vars

\* C13 witness: three calls, the first a Sell that recorded an error, then a Transfer and
\* a Stake; the summary counts 3
C13_Witness ==
    /\ Len(transactions) = 3
    /\ transactions[1].type = "sell" /\ Len(errors) = 1
    /\ transactions[2].type = "transfer"
    /\ transactions[3].type = "staking"
    /\ get_summary.total_transactions = 3

\* C14: a Buy appends one lot at the tail of its asset's inventory and changes no other
\* lot, no other inventory, and none of gains, losses, staking_income, errors; a Stake
\* changes staking_income only; a Transfer changes nothing but the transaction count.
C14_NonSellFrame ==
    [][Applied =>
         LET tx == Last(transactions') IN
         /\ tx.type = "buy" =>
               /\ Len(Inventory(lots', tx.asset)) = Len(Inventory(lots, tx.asset)) + 1
               /\ SubSeq(Inventory(lots', tx.asset), 1, Len(Inventory(lots, tx.asset)))
                     = Inventory(lots, tx.asset)
               /\ Last(Inventory(lots', tx.asset)).quantity = tx.amount
               /\ Last(Inventory(lots', tx.asset)).cost_eur_total
                     = tx.amount * tx.price_eur + tx.fee_eur
               /\ Last(Inventory(lots', tx.asset)).date = tx.date
               /\ \A b \in Assets \ {tx.asset} : Inventory(lots', b) = Inventory(lots, b)
               /\ UNCHANGED <<gains, losses, staking_income, errors>>
         /\ tx.type = "staking" =>
               /\ staking_income' = staking_income + tx.amount * tx.price_eur
               /\ UNCHANGED <<lots, gains, losses, errors>>
         /\ tx.type = "transfer" =>
               UNCHANGED <<lots, gains, losses, staking_income, errors>>]_vars

\* C14 witness: a second Buy put its lot behind the first, then a Transfer left all as
\* it was
C14_Witness ==
    /\ Len(transactions) = 3
    /\ transactions[1].type = "buy" /\ transactions[2].type = "buy"
    /\ transactions[1].asset = transactions[2].asset
    /\ transactions[1] # transactions[2]
    /\ transactions[3].type = "transfer"
    /\ lots[transactions[1].asset] = <<NewLot(transactions[1]), NewLot(transactions[2])>>
    /\ gains = 0 /\ losses = 0 /\ staking_income = 0 /\ errors = <<>>

\* what bounds the iterations the while loop has left
Measure(st) == Len(st.inv) + (IF st.remaining > 0 THEN 1 ELSE 0)

\* the loop run from st for at most fuel iterations: where it stops, and whether it stopped
\* by its own condition with every iteration lowering the measure
RECURSIVE RunLoop(_, _)
RunLoop(st, fuel) ==
    IF ~LoopRuns(st) THEN [ok |-> TRUE, st |-> st]
    ELSE IF fuel = 0 \/ Measure(LoopStep(st)) >= Measure(st) THEN [ok |-> FALSE, st |-> st]
    ELSE RunLoop(LoopStep(st), fuel - 1)

\* the ledger of a transaction list, computed from queues of single units
\* (units: asset -> the costs of the units held; acc: the totals so far)
RECURSIVE Replay(_, _, _)
Replay(txs, units, acc) ==
    IF txs = <<>> THEN acc
    ELSE LET tx == Head(txs)
             held == units[tx.asset]
             n == Min(tx.amount, Len(held))
             gain == tx.amount * tx.price_eur - SumSeq(SubSeq(held, 1, n)) - tx.fee_eur
         IN CASE tx.type = "buy" ->
                   Replay(Tail(txs),
                       [units EXCEPT ![tx.asset] =
                           @ \o [i \in 1..tx.amount |-> total_cost(tx) \div tx.amount]],
                       acc)
              [] tx.type = "sell" /\ held = <<>> ->
                   Replay(Tail(txs), units,
                       [acc EXCEPT !.errors = Append(@, tx.asset)])
              [] tx.type = "sell" /\ held # <<>> ->
                   Replay(Tail(txs),
                       [units EXCEPT ![tx.asset] = SubSeq(held, n + 1, Len(held))],
                       IF gain > 0 THEN [acc EXCEPT !.gains = @ + gain]
                       ELSE [acc EXCEPT !.losses = @ + gain])
              [] tx.type = "staking" ->
                   Replay(Tail(txs), units,
                       [acc EXCEPT !.staking = @ + tx.amount * tx.price_eur])
              [] OTHER -> Replay(Tail(txs), units, acc)

Ledger(txs) ==
    Replay(txs, [a \in Assets |-> <<>>],
           [gains |-> 0, losses |-> 0, staking |-> 0, errors |-> <<>>])

\* C15: the fold over a sequence of valid transactions is total and deterministic: on a
\* new engine the summary is all zeros with no errors; every valid transaction can be
\* applied in every state; the lot loop of any Sell stops by its own condition, each
\* iteration lowering Measure, at the result the Sell uses; and the summary is a function
\* of the transaction list alone.
C15_TotalAndDeterministic ==
    /\ transactions = <<>> =>
          /\ get_summary.gains = 0 /\ get_summary.losses = 0
          /\ get_summary.net_position = 0 /\ get_summary.staking_income = 0
          /\ get_summary.total_transactions = 0
          /\ get_summary.estimated_tax_liability = 0
          /\ errors = <<>>
    /\ Len(transactions) < MaxTx => \A tx \in TxInputs : ENABLED add_transaction(tx)
    /\ \A a \in DOMAIN lots : \A q \in Amounts :
          LET st == [inv |-> lots[a], remaining |-> q, cost_basis |-> 0]
              run == RunLoop(st, Measure(st))
          IN run.ok /\ run.st = ConsumeLots(lots[a], q, 0)
    /\ \E ref \in {Ledger(transactions)} :
          /\ get_summary = [gains |-> Round2(ref.gains),
                            losses |-> Round2(Abs(ref.losses)),
                            net_position |-> Round2(ref.gains + ref.losses),
                            staking_income |-> Round2(ref.staking),
                            total_transactions |-> Len(transactions),
                            errors |-> "self.errors",
                            estimated_tax_liability |->
                                _estimate_tax(ref.gains + ref.losses, Scale)]
          /\ [i \in 1..Len(errors) |-> errors[i][2]] = ref.errors

\* C15 witness: a Sell ran the loop over two lots, taking the first whole and the second
\* in part, and the summary shows its result
C15_Witness ==
    /\ Len(transactions) = 3
    /\ transactions[3].type = "sell" /\ transactions[3].amount = 2
    /\ Len(Inventory(lots, transactions[3].asset)) = 1
    /\ Inventory(lots, transactions[3].asset)[1].quantity = 1
    /\ cost_basis > 0
    /\ get_summary.net_position # 0

\* the sum of amount * price_eur over the Stake transactions of a list
RECURSIVE StakeSum(_)
StakeSum(txs) ==
    IF txs = <<>> THEN 0
    ELSE (IF Head(txs).type = "staking" THEN Head(txs).amount * Head(txs).price_eur ELSE 0)
         + StakeSum(Tail(txs))

\* a list with its elements at i and i + 1 exchanged
Swap(txs, i) ==
    [k \in 1..Len(txs) |-> IF k = i THEN txs[i + 1] ELSE IF k = i + 1 THEN txs[i] ELSE txs[k]]

\* C16: staking_income is the sum of amount * price_eur over the Stake transactions
\* applied so far, whatever Buys and Sells lie between them, and that sum is the same
\* for the list with any two neighbours exchanged, hence for every reordering (each of
\* which is itself a reachable list for which the equality holds).
C16_StakingIsOrderFreeSum ==
    /\ staking_income = StakeSum(transactions)
    /\ \A i \in 1..(Len(transactions) - 1) :
          StakeSum(Swap(transactions, i)) = StakeSum(transactions)

\* C16 witness: two Stakes of different value with a Buy between them
C16_Witness ==
    /\ Len(transactions) = 3
    /\ transactions[1].type = "staking" /\ transactions[2].type = "buy"
    /\ transactions[3].type = "staking"
    /\ transactions[1].amount * transactions[1].price_eur
          # transactions[3].amount * transactions[3].price_eur
    /\ staking_income = transactions[1].amount * transactions[1].price_eur
                          + transactions[3].amount * transactions[3].price_eur

\* C17: get_summary does not modify the ledger: a step that applies no transaction
\* leaves lots, totals, errors and the transaction list as they were; a summary taken
\* again with no add_transaction since the last one reads the same in every field; and
\* with summaries taken at any points the ledger is still the one its transaction list
\* gives, so later add_transaction and get_summary results are unaffected.
C17_SummaryIsReadOnly ==
    /\ [][Len(transactions') = Len(transactions) =>
             /\ UNCHANGED <<transactions, lots, gains, losses, staking_income, errors>>
             /\ (summary # NoSummary /\ summary.total_transactions = Len(transactions)
                    => Deref(summary)' = Deref(summary))]_vars
    /\ [](\E ref \in {Ledger(transactions)} :
             /\ <<gains, losses, staking_income>> = <<ref.gains, ref.losses, ref.staking>>
             /\ [i \in 1..Len(errors) |-> errors[i][2]] = ref.errors
             /\ (summary # NoSummary /\ summary.total_transactions = Len(transactions)
                    => summary = get_summary))

\* C17 witness: a summary showing a loss was returned and nothing was applied since
C17_Witness ==
    /\ summary # NoSummary
    /\ summary.total_transactions = Len(transactions)
    /\ losses < 0 /\ summary.losses > 0
    /\ Len(transactions) >= 2

\* C18 (as claimed): a summary that has been returned reads the same after any later
\* step of the engine, in every field including its errors
C18_ReturnedSummaryFixed ==
    [][summary # NoSummary /\ summary' = summary
         => Deref(summary)' = Deref(summary)]_vars

\* the lots of new are lots of old, in order, none larger and none with another unit
\* cost or date, after which new holds at most lots that old did not
LotsPersist(old, new) ==
    IF Len(new) > Len(old)
    THEN SubSeq(new, 1, Len(old)) = old
    ELSE LET k == Len(old) - Len(new) IN
         \A i \in 1..Len(new) :
             /\ new[i].quantity <= old[i + k].quantity
             /\ new[i].cost_per_unit = old[i + k].cost_per_unit
             /\ new[i].date = old[i + k].date

\* C19: after any sequence of valid transactions every lot held has quantity > 0 and a
\* total cost of unit cost times quantity; and over every step each lot that stays keeps
\* its unit cost and its quantity does not grow.
C19_LotsWellFormed ==
    /\ [](\A a \in DOMAIN lots : \A i \in 1..Len(lots[a]) :
             /\ lots[a][i].quantity > 0
             /\ lots[a][i].cost_eur_total = lots[a][i].cost_per_unit * lots[a][i].quantity)
    /\ [][\A a \in Assets : LotsPersist(Inventory(lots, a), Inventory(lots, a)')]_vars

\* C19 witness: a lot of two units of which a Sell took one, and another Sell took
\* the rest, emptying the inventory
C19_Witness ==
    /\ Len(transactions) = 3
    /\ transactions[1].type = "buy" /\ transactions[1].amount = 2
    /\ transactions[2].type = "sell" /\ transactions[2].amount = 1
    /\ transactions[3].type = "sell" /\ transactions[3].amount = 1
    /\ transactions[2].asset = transactions[1].asset
    /\ transactions[3].asset = transactions[1].asset
    /\ Inventory(lots, transactions[1].asset) = <<>>
    /\ errors = <<>>

\* the total cost held in an inventory
RECURSIVE LotCost(_)
LotCost(inv) == IF inv = <<>> THEN 0 ELSE Head(inv).cost_eur_total + LotCost(Tail(inv))

\* the sum of amount * price_eur + fee_eur over the Buys of asset a in a list
RECURSIVE BuyCost(_, _)
BuyCost(txs, a) ==
    IF txs = <<>> THEN 0
    ELSE (IF Head(txs).type = "buy" /\ Head(txs).asset = a
          THEN Head(txs).amount * Head(txs).price_eur + Head(txs).fee_eur ELSE 0)
         + BuyCost(Tail(txs), a)

\* C20: cost is conserved per asset.  Nothing is held or spent at the start, and over
\* every transaction, for every asset, what its Buys have cost so far grows by exactly
\* the cost basis matched to the transaction (when it is a Sell of that asset that found
\* inventory) plus the change of the total cost of the asset's remaining lots; and the
\* inventory of every asset other than the transaction's stays as it was.
C20_CostConserved ==
    /\ [](transactions = <<>> => \A a \in Assets : Inventory(lots, a) = <<>>)
    /\ [][Applied =>
            LET tx == Last(transactions') IN
            \A a \in Assets :
                /\ BuyCost(transactions', a) - BuyCost(transactions, a)
                      = (IF tx.type = "sell" /\ tx.asset = a /\ Inventory(lots, a) # <<>>
                         THEN cost_basis' ELSE 0)
                        + LotCost(Inventory(lots, a)') - LotCost(Inventory(lots, a))
                /\ (a # tx.asset => Inventory(lots, a)' = Inventory(lots, a))]_vars

\* C20 witness: with lots of two assets held, a Sell took part of the one asset's lot
\* bought with a fee, and the other asset's lot is still there
C20_Witness ==
    /\ Len(transactions) = 3
    /\ transactions[1].type = "buy" /\ transactions[1].asset = "BTC"
    /\ transactions[1].amount = 2 /\ transactions[1].fee_eur > 0
    /\ transactions[2].type = "buy" /\ transactions[2].asset = "ETH"
    /\ transactions[3].type = "sell" /\ transactions[3].asset = "BTC"
    /\ transactions[3].amount = 1
    /\ cost_basis > 0
    /\ LotCost(Inventory(lots, "BTC")) + cost_basis = BuyCost(transactions, "BTC")
    /\ Inventory(lots, "ETH") = <<NewLot(transactions[2])>>

=============================================================================
